---- MODULE Spec2Model ----
(***************************************************************************)
(* SafeTrail, backend/ml_model/predict.py: one run of the command-line     *)
(* threat analysis, from sys.argv to the JSON line on standard output and  *)
(* the exit code.                                                          *)
(*                                                                         *)
(* Text that the program searches in (headlines, district names, the       *)
(* threat-profile message) is a sequence of one-character strings, so that *)
(* str.lower() and the substring operator `in` are computed.  Text that is *)
(* only copied around is a TLA+ string.  Floats are counted in hundredths   *)
(* (0.7 is 70).  Python's None is the record None.                         *)
(***************************************************************************)
EXTENDS Integers, Sequences, FiniteSets, TLC

VARIABLES
    argv,             \* sys.argv, the script name first
    args,             \* latitude, longitude, accuracy, user_id; None before line 262
    pc,               \* position of main()
    model,            \* the TravelSafetyMLModel object, None before line 268
    location,         \* what geolocator.reverse() did (line 46)
    district_name,    \* analyze_threats: line 101
    threat_profile,   \* analyze_threats: line 107
    profile_lookup,   \* how get_district_threats ended (lines 62-83)
    news_articles,    \* analyze_threats: line 110
    article_idx,      \* position of the for loop of line 117
    threats_detected, \* analyze_threats: line 113
    result,           \* the value analyze_threats returns
    raised,           \* the exception that was raised, "none" when none was
    streams,          \* what has been printed to stdout and to stderr
    exit_code         \* the process's exit status, -1 while it runs

vars ==
    << argv, args, pc, model, location, district_name, threat_profile, profile_lookup,
       news_articles, article_idx, threats_detected, result, raised, streams,
       exit_code >>

-----------------------------------------------------------------------------
(* Bounds of the model. *)

MaxArgc ==
    6

MaxElapsed ==
    1

-----------------------------------------------------------------------------
(* Character strings. *)

UpperCase ==
    << "A", "B", "C", "D", "E", "F", "G", "H", "I", "J", "K", "L", "M", "N", "O", "P", "Q", "R", "S", "T", "U", "V", "W", "X", "Y", "Z" >>

LowerCase ==
    << "a", "b", "c", "d", "e", "f", "g", "h", "i", "j", "k", "l", "m", "n", "o", "p", "q", "r", "s", "t", "u", "v", "w", "x", "y", "z" >>

ToLower ==
    [c \in { UpperCase[i] : i \in 1..Len(UpperCase) } |->
        LowerCase[CHOOSE i \in 1..Len(UpperCase) : UpperCase[i] = c]]

ToUpper ==
    [c \in { LowerCase[i] : i \in 1..Len(LowerCase) } |->
        UpperCase[CHOOSE i \in 1..Len(LowerCase) : LowerCase[i] = c]]

LowerChar(c) ==
    IF c \in DOMAIN ToLower THEN ToLower[c] ELSE c

UpperChar(c) ==
    IF c \in DOMAIN ToUpper THEN ToUpper[c] ELSE c

IsAlpha(c) ==
    c \in DOMAIN ToLower \/ c \in DOMAIN ToUpper

(* str.lower() *)
RECURSIVE Lower(_)
Lower(s) ==
    IF s = << >> THEN << >> ELSE << LowerChar(Head(s)) >> \o Lower(Tail(s))

(* str.title(): a letter that follows a non-letter is upper-cased, any other
   letter lower-cased. *)
RECURSIVE TitleFrom(_, _)
TitleFrom(s, i) ==
    IF i > Len(s) THEN << >>
    ELSE << IF i = 1 \/ ~IsAlpha(s[i - 1]) THEN UpperChar(s[i]) ELSE LowerChar(s[i]) >>
         \o TitleFrom(s, i + 1)

Title(s) ==
    TitleFrom(s, 1)

(* str.replace(old, new) for one-character old and new. *)
RECURSIVE ReplaceChar(_, _, _)
ReplaceChar(s, old, new) ==
    IF s = << >> THEN << >>
    ELSE << IF Head(s) = old THEN new ELSE Head(s) >> \o ReplaceChar(Tail(s), old, new)

(* str.replace(c, '') for each c of chars. *)
RemoveChars(s, chars) ==
    LET Keep(c) == c \notin chars IN SelectSeq(s, Keep)

(* needle in hay, scanning hay from the left. *)
RECURSIVE FindFrom(_, _, _)
FindFrom(needle, hay, i) ==
    IF i + Len(needle) - 1 > Len(hay) THEN FALSE
    ELSE IF SubSeq(hay, i, i + Len(needle) - 1) = needle THEN TRUE
    ELSE FindFrom(needle, hay, i + 1)

Contains(needle, hay) ==
    FindFrom(needle, hay, 1)

Title1 ==
    <<"H", "e", "a", "v", "y", " ", "r", "a", "i", "n", "s", " ", "a", "n", "d", " ", "f", "l", "o", "o", "d", " ", "w", "a", "r", "n", "i", "n", "g", "s", " ", "i", "s", "s", "u", "e", "d", " ", "f", "o", "r", " ", "D", "e", "l", "h", "i">>
Title2 ==
    <<"M", "u", "m", "b", "a", "i", " ", "t", "r", "a", "f", "f", "i", "c", " ", "c", "h", "a", "o", "s", " ", "d", "u", "e", " ", "t", "o", " ", "p", "o", "l", "i", "t", "i", "c", "a", "l", " ", "p", "r", "o", "t", "e", "s", "t">>
Title3 ==
    <<"T", "o", "u", "r", "i", "s", "t", " ", "s", "c", "a", "m", "s", " ", "o", "n", " ", "t", "h", "e", " ", "r", "i", "s", "e", " ", "i", "n", " ", "J", "a", "i", "p", "u", "r">>
Title4 ==
    <<"R", "o", "a", "d", " ", "a", "c", "c", "i", "d", "e", "n", "t", "s", " ", "i", "n", "c", "r", "e", "a", "s", "e", " ", "i", "n", " ", "B", "a", "n", "g", "a", "l", "o", "r", "e">>
Title5 ==
    <<"T", "h", "e", "f", "t", " ", "i", "n", "c", "i", "d", "e", "n", "t", "s", " ", "r", "e", "p", "o", "r", "t", "e", "d", " ", "i", "n", " ", "C", "h", "e", "n", "n", "a", "i">>
NoThreatDataAvailable ==
    <<"N", "o", " ", "t", "h", "r", "e", "a", "t", " ", "d", "a", "t", "a", " ", "a", "v", "a", "i", "l", "a", "b", "l", "e">>
NoSpecificThreatDataAvailable ==
    <<"N", "o", " ", "s", "p", "e", "c", "i", "f", "i", "c", " ", "t", "h", "r", "e", "a", "t", " ", "d", "a", "t", "a", " ", "a", "v", "a", "i", "l", "a", "b", "l", "e", " ", "f", "o", "r", " ", "t", "h", "i", "s", " ", "d", "i", "s", "t", "r", "i", "c", "t">>
NoSpecificThreatData ==
    <<"N", "o", " ", "s", "p", "e", "c", "i", "f", "i", "c", " ", "t", "h", "r", "e", "a", "t", " ", "d", "a", "t", "a">>
UnknownDistrict ==
    <<"U", "n", "k", "n", "o", "w", "n">>
THREAT_KEYWORDS ==
    << <<"p", "r", "o", "t", "e", "s", "t">>,
       <<"r", "i", "o", "t">>,
       <<"u", "n", "r", "e", "s", "t">>,
       <<"v", "i", "o", "l", "e", "n", "c", "e">>,
       <<"f", "l", "o", "o", "d">>,
       <<"c", "y", "c", "l", "o", "n", "e">>,
       <<"d", "i", "s", "a", "s", "t", "e", "r">>,
       <<"s", "c", "a", "m">>,
       <<"t", "h", "e", "f", "t">>,
       <<"r", "o", "b", "b", "e", "r", "y">>,
       <<"a", "c", "c", "i", "d", "e", "n", "t">> >>
(* District names the geocoder is given to return, one per address component. *)
NameCityDistrict ==
    <<"M", "u", "m", "b", "a", "i">>
NameSuburb ==
    <<"C", "h">>
NameCity ==
    <<"P", "u", "n", "e">>
NameCounty ==
    <<"i", "n">>
NameStateDistrict ==
    <<"D", "e", "l", "h", "i">>


-----------------------------------------------------------------------------
(* Python values. *)

None ==
    [py |-> "None"]

Str(s) ==
    [py |-> "str", s |-> s]

(* A JSON value of the geocoder's answer that is no string: it is truthy and
   has no method lower(). *)
NonStr ==
    [py |-> "int"]

(* Mutant of Truthy: `is not None` in place of truthiness. *)
TruthyNotNone(v) ==
    v # None

(* bool(v) *)
Truthy(v) ==
    \/ v.py = "str" /\ v.s # << >>
    \/ v.py = "int"

(* a or b *)
Or(a, b) ==
    IF Truthy(a) THEN a ELSE b

(* dict.get(key) *)
Get(dict, key) ==
    IF key \in DOMAIN dict THEN dict[key] ELSE None

DigitChars ==
    << "0", "1", "2", "3", "4", "5", "6", "7", "8", "9" >>

(* str(n) for n >= 0, as the f-strings format len(threats_detected). *)
RECURSIVE Digits(_)
Digits(n) ==
    IF n < 10 THEN << DigitChars[n + 1] >>
    ELSE Digits(n \div 10) \o << DigitChars[(n % 10) + 1] >>

(* A line written by print(): a diagnostic text, or json.dumps(obj). *)
Diag(text) ==
    [kind |-> "diag", text |-> text]

Json(obj) ==
    [kind |-> "json", obj |-> obj]

WriteLine(s, file, entry) ==
    [s EXCEPT ![file] = Append(@, entry)]

RECURSIVE WriteAll(_, _, _)
WriteAll(s, file, texts) ==
    IF texts = << >> THEN s
    ELSE WriteAll(WriteLine(s, file, Diag(Head(texts))), file, Tail(texts))

-----------------------------------------------------------------------------
(* The Coordinate Resolver: get_district_from_coordinates. *)

AddressKeys ==
    << "city_district", "suburb", "city", "county", "state_district" >>

(* The values an address component can have when present. *)
ComponentValues(key) ==
    CASE key = "city_district" -> { Str(<< >>), Str(NameCityDistrict) }
      [] key = "suburb" -> { Str(<< >>), Str(NameSuburb) }
      [] key = "city" -> { Str(<< >>), Str(NameCity) }
      [] key = "county" -> { Str(<< >>), Str(NameCounty) }
      [] key = "state_district" -> { Str(<< >>), Str(NameStateDistrict), NonStr }

KeySet ==
    { AddressKeys[i] : i \in 1..Len(AddressKeys) }

Addresses ==
    UNION { { a \in [D -> UNION { ComponentValues(k) : k \in D }] :
                \A k \in D : a[k] \in ComponentValues(k) } : D \in SUBSET KeySet }

NoAddress ==
    [k \in {} |-> None]

(* What geolocator.reverse() and location.raw can do. *)
Locations ==
    { [outcome |-> o, address |-> NoAddress] :
        o \in { "GeocoderTimedOut", "GeocoderServiceError", "Exception",
                "no_location", "no_address" } }
    \cup { [outcome |-> "address", address |-> a] : a \in Addresses }

(* Mutant of DistrictOf: suburb is looked up before city_district. *)
DistrictOfSuburbFirst(address) ==
    Or(Get(address, "suburb"),
       Or(Get(address, "city_district"),
          Or(Get(address, "city"),
             Or(Get(address, "county"), Get(address, "state_district")))))

(* Lines 50-54. *)
DistrictOf(address) ==
    Or(Get(address, "city_district"),
       Or(Get(address, "suburb"),
          Or(Get(address, "city"),
             Or(Get(address, "county"), Get(address, "state_district")))))

GeocodingFile ==
    "stderr"

(* Lines 43-60: the value returned and the diagnostics printed. *)
GetDistrictFromCoordinates(loc) ==
    CASE loc.outcome \in { "GeocoderTimedOut", "GeocoderServiceError" } ->
            [value |-> None, log |-> << "Geocoding error" >>]
      [] loc.outcome = "Exception" ->
            [value |-> None, log |-> << "Unexpected geocoding error" >>]
      [] loc.outcome \in { "no_location", "no_address" } ->
            [value |-> None, log |-> << >>]
      [] loc.outcome = "address" ->
            IF DOMAIN loc.address # {}
            THEN [value |-> DistrictOf(loc.address), log |-> << >>]
            ELSE [value |-> None, log |-> << >>]

-----------------------------------------------------------------------------
(* The Threat Profile Store: load_model and get_district_threats. *)

RowMumbai ==
    <<"M", "u", "m", "b", "a", "i">>
RowPune ==
    <<"P", "u", "n", "e">>
KeyCrimeRate ==
    <<"c", "r", "i", "m", "e", "_", "r", "a", "t", "e">>
KeyCommonScams ==
    <<"c", "o", "m", "m", "o", "n", "_", "s", "c", "a", "m", "s">>
ValueCrime ==
    <<"[", "'", "t", "h", "e", "f", "t", "'", ",", " ", "'", "s", "c", "a", "m", "'", "]">>
BulletPrefix ==
    <<"\n", "-", " ">>
ColonSep ==
    <<":", " ">>

(* A district_threat_profiles.csv: a District column and threat columns, a
   value being text or NaN. *)
ProfileRows ==
    << [District |-> RowMumbai,
        attrs |-> << [key |-> KeyCrimeRate, value |-> ValueCrime, isna |-> FALSE],
                     [key |-> KeyCommonScams, value |-> << >>, isna |-> TRUE] >>],
       [District |-> RowPune,
        attrs |-> << [key |-> KeyCrimeRate, value |-> << >>, isna |-> TRUE],
                     [key |-> KeyCommonScams, value |-> << >>, isna |-> TRUE] >>] >>

(* What load_model can find at THREAT_PROFILE_FILE. *)
CsvFiles ==
    { [exists |-> FALSE, readable |-> FALSE, has_district |-> FALSE, rows |-> << >>],
      [exists |-> TRUE, readable |-> FALSE, has_district |-> FALSE, rows |-> << >>],
      [exists |-> TRUE, readable |-> TRUE, has_district |-> FALSE, rows |-> << >>],
      [exists |-> TRUE, readable |-> TRUE, has_district |-> TRUE, rows |-> ProfileRows] }

DataFrame(csv) ==
    [py |-> "DataFrame", has_district |-> csv.has_district, rows |-> csv.rows]

(* Lines 21-26. *)
NewModel ==
    [py |-> "TravelSafetyMLModel", model_loaded |-> FALSE, data_loaded |-> FALSE,
     model_version |-> "1.0", threat_profiles_df |-> None]

(* Mutant of LoadModelFile: print() without file=sys.stderr. *)
LoadModelFileDefault ==
    "stdout"

LoadModelFile ==
    "stderr"

(* Lines 28-41: the model after load_model and the diagnostic it prints. *)
LoadModel(m, csv) ==
    IF ~csv.exists
    THEN [model |-> [m EXCEPT !.model_loaded = FALSE],
          log |-> << "Warning: Threat profiles file not found" >>]
    ELSE IF ~csv.readable
    THEN [model |-> [m EXCEPT !.model_loaded = FALSE],
          log |-> << "Error loading model" >>]
    ELSE [model |-> [m EXCEPT !.threat_profiles_df = DataFrame(csv),
                              !.model_loaded = TRUE],
          log |-> << "Threat profiles loaded" >>]

(* Lines 68-70: the rows whose District equals the name, both lower-cased. *)
ThreatRows(df, name) ==
    LET Same(row) == Lower(row.District) = Lower(name) IN SelectSeq(df.rows, Same)

(* Lines 74-78. *)
RECURSIVE ThreatMessage(_)
ThreatMessage(attrs) ==
    IF attrs = << >> THEN << >>
    ELSE LET a == Head(attrs)
             line == IF a.isna THEN << >>
                     ELSE BulletPrefix \o Title(ReplaceChar(a.key, "_", " "))
                          \o ColonSep \o RemoveChars(a.value, { "[", "]", "'" })
         IN line \o ThreatMessage(Tail(attrs))

(* Line 64: `not self.threat_profiles_df is not None`. *)
ProfilesMissing(df) ==
    ~(df # None)

ProfileFile ==
    "stderr"

(* Lines 62-83: the text returned, how the lookup ended, the diagnostics. *)
GetDistrictThreats(m, name) ==
    LET df == m.threat_profiles_df IN
    IF ProfilesMissing(df) \/ name = None
    THEN [value |-> NoThreatDataAvailable, lookup |-> "not_loaded", log |-> << >>]
    ELSE IF ~df.has_district \/ name.py # "str"
    THEN [value |-> NoSpecificThreatDataAvailable, lookup |-> "raised",
          log |-> << "Error getting district threats" >>]
    ELSE LET threat_row == ThreatRows(df, name.s) IN
         IF threat_row # << >>
         THEN [value |-> ThreatMessage(threat_row[1].attrs), lookup |-> "found",
               log |-> << >>]
         ELSE [value |-> NoSpecificThreatDataAvailable, lookup |-> "no_row",
               log |-> << >>]

-----------------------------------------------------------------------------
(* The Signal Source and the Risk Classifier: analyze_threats. *)

(* Lines 85-93. *)
MockNewsArticles ==
    << [title |-> Title1, source |-> [name |-> "Indian News"],
        url |-> "https://example.com/delhi-flood"],
       [title |-> Title2, source |-> [name |-> "Local Times"],
        url |-> "https://example.com/mumbai-protest"],
       [title |-> Title3, source |-> [name |-> "Travel Journal"],
        url |-> "https://example.com/jaipur-scams"],
       [title |-> Title4, source |-> [name |-> "City News"],
        url |-> "https://example.com/bangalore-accidents"],
       [title |-> Title5, source |-> [name |-> "Local Herald"],
        url |-> "https://example.com/chennai-theft"] >>

(* Line 121: any(keyword in title.lower() for keyword in THREAT_KEYWORDS). *)
RECURSIVE AnyKeywordFrom(_, _)
AnyKeywordFrom(lowered, k) ==
    IF k > Len(THREAT_KEYWORDS) THEN FALSE
    ELSE IF Contains(THREAT_KEYWORDS[k], lowered) THEN TRUE
    ELSE AnyKeywordFrom(lowered, k + 1)

AnyKeyword(title) ==
    LET lowered == Lower(title) IN AnyKeywordFrom(lowered, 1)

(* Mutant of ArticleMatch: the keyword test is left out. *)
ArticleMatchByDistrict(title, name) ==
    IF name.py # "str" THEN "raise"
    ELSE IF Contains(Lower(name.s), Lower(title)) THEN "match"
    ELSE "skip"

(* Lines 121-122: the condition of the if, which is "raise" when
   district_name.lower() is evaluated on a value that has no lower(). *)
ArticleMatch(title, name) ==
    IF ~AnyKeyword(title) THEN "skip"
    ELSE IF name.py # "str" THEN "raise"
    ELSE IF Contains(Lower(name.s), Lower(title)) THEN "match"
    ELSE "skip"

(* Lines 124-129. *)
ThreatDetail(article, name) ==
    [title |-> article.title, source |-> article.source.name, url |-> article.url,
     district |-> name.s]

(* Mutant of RiskLevel: `> 2` in place of `>= 2`. *)
RiskLevelAboveTwo(threats) ==
    IF Len(threats) > 0
    THEN IF Len(threats) > 2 THEN "high" ELSE "medium"
    ELSE "low"

(* Lines 114 and 132-133. *)
RiskLevel(threats) ==
    IF Len(threats) > 0
    THEN IF Len(threats) >= 2 THEN "high" ELSE "medium"
    ELSE "low"

(* Lines 115 and 132-134, in hundredths. *)
Confidence(threats) ==
    IF Len(threats) > 0
    THEN IF Len(threats) >= 2 THEN 90 ELSE 80
    ELSE 70

(* Mutant of ThreatCount: the articles read are counted, not the matches. *)
ThreatCountOfFeed(threats) ==
    Len(MockNewsArticles)

(* Line 154. *)
ThreatCount(threats) ==
    Len(threats)

Line(text) ==
    [text |-> text]

LineWith(text, arg) ==
    [text |-> text, arg |-> arg]

(* Lines 170-171. *)
ActiveThreatLines(threats) ==
    [i \in 1..Len(threats) |-> LineWith("Active threat: {title}", threats[i].title)]

(* Lines 162-183. *)
GenerateInsights(name, threats, profile) ==
    << LineWith("Analyzing safety conditions in {district_name}", name.s) >>
    \o (IF Len(threats) > 0
        THEN << LineWith("Found {len} active threat(s) in the area",
                         Digits(Len(threats))) >>
             \o ActiveThreatLines(threats)
        ELSE << Line("No active threats detected in recent news") >>)
    \o (IF ~Contains(NoSpecificThreatData, profile)
        THEN << Line("Historical threat data available for this district") >>
        ELSE << Line("Limited historical threat data for this district") >>)
    \o << Line("Analysis based on real-time news and historical data") >>

(* Lines 185-208. *)
GenerateRecommendations(risk_level, threats) ==
    (CASE risk_level = "high" ->
            << "HIGH RISK: Avoid this area if possible",
               "Stay alert and aware of your surroundings",
               "Consider alternative routes or postpone travel",
               "Keep emergency contacts readily available" >>
       [] risk_level = "medium" ->
            << "MODERATE RISK: Exercise caution",
               "Be extra vigilant in this area",
               "Avoid isolated or poorly lit areas",
               "Stay informed about local conditions" >>
       [] OTHER ->
            << "LOW RISK: Normal safety precautions apply",
               "Maintain general awareness of surroundings",
               "Follow standard safety practices" >>)
    \o (IF Len(threats) > 0
        THEN << "Monitor local news for updates",
                "Consider using alternative transportation" >>
        ELSE << >>)

(* Lines 210-217. *)
GeneratePrediction(name, risk_level, threats) ==
    CASE risk_level = "high" ->
            LineWith("High risk detected in {district_name}. Multiple threats identified. Avoid if possible.", name.s)
      [] risk_level = "medium" ->
            LineWith("Moderate risk in {district_name}. Some safety concerns present. Exercise caution.", name.s)
      [] OTHER ->
            LineWith("Low risk in {district_name}. Area appears generally safe for normal activities.", name.s)

(* Mutant of CheckSafetyAlert: the high alert asks for more than two threats. *)
CheckSafetyAlertAboveTwo(risk_level, threats) ==
    IF risk_level = "high" /\ Len(threats) > 2
    THEN [type |-> "high_risk_area", severity |-> "high",
          message |-> LineWith("High risk area detected with {len} active threat(s). Please exercise extreme caution.",
                               Digits(Len(threats)))]
    ELSE IF risk_level = "medium" /\ Len(threats) > 0
    THEN [type |-> "moderate_risk", severity |-> "medium",
          message |-> LineWith("Moderate risk detected with {len} active threat(s). Please be cautious.",
                               Digits(Len(threats)))]
    ELSE None

(* Lines 219-234. *)
CheckSafetyAlert(risk_level, threats) ==
    IF risk_level = "high" /\ Len(threats) > 0
    THEN [type |-> "high_risk_area", severity |-> "high",
          message |-> LineWith("High risk area detected with {len} active threat(s). Please exercise extreme caution.",
                               Digits(Len(threats)))]
    ELSE IF risk_level = "medium" /\ Len(threats) > 0
    THEN [type |-> "moderate_risk", severity |-> "medium",
          message |-> LineWith("Moderate risk detected with {len} active threat(s). Please be cautious.",
                               Digits(Len(threats)))]
    ELSE None

(* Mutant of GetFallbackResult: the fallback of predict_template.py. *)
GetFallbackResultOfTemplate(m, error_message) ==
    [risk_level |-> "unknown",
     confidence |-> 0,
     prediction |-> Line("Model prediction failed"),
     insights |-> << Line("Unable to analyze location") >>,
     recommendations |-> << "Please try again or contact support" >>,
     safety_alert |-> None,
     model_version |-> m.model_version,
     processing_time |-> 0]

(* Lines 236-250. *)
GetFallbackResult(m, error_message) ==
    [risk_level |-> "unknown",
     confidence |-> 0,
     prediction |-> [text |-> "Analysis failed: {error_message}",
                     error_message |-> error_message],
     insights |-> << Line("Unable to analyze location"), Line("Please try again") >>,
     recommendations |-> << "Use general safety precautions", "Stay alert" >>,
     safety_alert |-> None,
     model_version |-> m.model_version,
     processing_time |-> 0,
     district |-> UnknownDistrict,
     threats_detected |-> 0,
     threat_details |-> << >>]

(* Lines 131-156: the result of an analysis that found `threats`, after
   `elapsed` hundredths of a second. *)
AnalysisResult(m, name, threats, profile, elapsed) ==
    LET risk_level == RiskLevel(threats) IN
    [risk_level |-> risk_level,
     confidence |-> Confidence(threats),
     prediction |-> GeneratePrediction(name, risk_level, threats),
     insights |-> GenerateInsights(name, threats, profile),
     recommendations |-> GenerateRecommendations(risk_level, threats),
     safety_alert |-> CheckSafetyAlert(risk_level, threats),
     model_version |-> m.model_version,
     processing_time |-> elapsed,
     district |-> name.s,
     threats_detected |-> ThreatCount(threats),
     threat_details |-> threats]

(* Mutant of InvalidArguments: the usage error carries a risk_level too. *)
InvalidArgumentsWithRisk ==
    [error |-> "Invalid arguments. Usage: python predict.py <latitude> <longitude> <accuracy> <user_id>",
     risk_level |-> "unknown"]

(* Lines 257-259. *)
InvalidArguments ==
    [error |-> "Invalid arguments. Usage: python predict.py <latitude> <longitude> <accuracy> <user_id>"]

(* Mutant of ErrorResult: the error object of predict_template.py. *)
ErrorResultOfTemplate(e) ==
    [error |-> e,
     risk_level |-> "unknown",
     confidence |-> 0,
     prediction |-> Line("Error occurred"),
     insights |-> << Line("Model error") >>,
     recommendations |-> << "Please try again" >>,
     safety_alert |-> None,
     model_version |-> "1.0",
     processing_time |-> 0]

(* Lines 279-292. *)
ErrorResult(e) ==
    [error |-> e,
     risk_level |-> "unknown",
     confidence |-> 0,
     prediction |-> Line("Error occurred during analysis"),
     insights |-> << Line("Model error occurred") >>,
     recommendations |-> << "Please try again or contact support" >>,
     safety_alert |-> None,
     model_version |-> "1.0",
     processing_time |-> 0,
     district |-> UnknownDistrict,
     threats_detected |-> 0,
     threat_details |-> << >>]

-----------------------------------------------------------------------------
(* The command line. *)

ExpectedArgc ==
    5

ScriptName ==
    "predict.py"

ArgTokens ==
    { "19.07", "abc" }

(* A float: not-a-number, or a number counted in hundredths. *)
Float(h) ==
    [nan |-> FALSE, h |-> h]

NaN ==
    [nan |-> TRUE, h |-> 0]

(* The command-line tokens that float() accepts, with their values. *)
FloatTable ==
    { [token |-> "19.07", value |-> Float(1907)],
      [token |-> "nan", value |-> NaN],
      [token |-> "-1", value |-> Float(-100)],
      [token |-> "5", value |-> Float(500)],
      [token |-> "10", value |-> Float(1000)],
      [token |-> "24.99", value |-> Float(2499)],
      [token |-> "25", value |-> Float(2500)],
      [token |-> "49.99", value |-> Float(4999)],
      [token |-> "50", value |-> Float(5000)],
      [token |-> "50.01", value |-> Float(5001)],
      [token |-> "60", value |-> Float(6000)],
      [token |-> "22.99", value |-> Float(2299)],
      [token |-> "23.0", value |-> Float(2300)],
      [token |-> "23.05", value |-> Float(2305)],
      [token |-> "23.1", value |-> Float(2310)],
      [token |-> "23.11", value |-> Float(2311)],
      [token |-> "72.49", value |-> Float(7249)],
      [token |-> "72.5", value |-> Float(7250)],
      [token |-> "72.55", value |-> Float(7255)],
      [token |-> "72.6", value |-> Float(7260)],
      [token |-> "72.61", value |-> Float(7261)] }

(* float(token) returns for these and raises ValueError for the others. *)
FloatLiterals ==
    { e.token : e \in FloatTable }

(* float(token) for a token it accepts. *)
FloatOf(token) ==
    (CHOOSE e \in FloatTable : e.token = token).value

ParsesAsFloat(token) ==
    token \in FloatLiterals

ArgLists ==
    UNION { [1..n -> ArgTokens] : n \in 0..(MaxArgc - 1) }

-----------------------------------------------------------------------------
(* main(), one action per step. *)

Init ==
    /\ argv \in { << ScriptName >> \o list : list \in ArgLists }
    /\ args = None
    /\ pc = "main"
    /\ model = None
    /\ location = [outcome |-> "not_called", address |-> NoAddress]
    /\ district_name = None
    /\ threat_profile = << >>
    /\ profile_lookup = "not_called"
    /\ news_articles = << >>
    /\ article_idx = 0
    /\ threats_detected = << >>
    /\ result = None
    /\ raised = "none"
    /\ streams = [stdout |-> << >>, stderr |-> << >>]
    /\ exit_code = -1

(* Lines 256-260: sys.exit(1) raises SystemExit, which `except Exception`
   does not catch. *)
CheckArguments ==
    /\ pc = "main"
    /\ IF Len(argv) # ExpectedArgc
       THEN /\ streams' = WriteLine(streams, "stdout", Json(InvalidArguments))
            /\ exit_code' = 1
            /\ pc' = "exited"
       ELSE /\ pc' = "parse"
            /\ UNCHANGED << streams, exit_code >>
    /\ UNCHANGED << argv, args, model, location, district_name, threat_profile,
                    profile_lookup, news_articles, article_idx, threats_detected,
                    result, raised >>

(* Lines 262-265. *)
ParseArguments ==
    /\ pc = "parse"
    /\ IF \A i \in 2..4 : ParsesAsFloat(argv[i])
       THEN /\ args' = [latitude |-> FloatOf(argv[2]), longitude |-> FloatOf(argv[3]),
                        accuracy |-> FloatOf(argv[4]), user_id |-> argv[5]]
            /\ pc' = "construct"
            /\ UNCHANGED raised
       ELSE /\ pc' = "except"
            /\ raised' = "ValueError"
            /\ UNCHANGED args
    /\ UNCHANGED << argv, model, location, district_name, threat_profile,
                    profile_lookup, news_articles, article_idx, threats_detected,
                    result, streams, exit_code >>

(* Line 268. *)
ConstructModel ==
    /\ pc = "construct"
    /\ model' = NewModel
    /\ pc' = "load_model"
    /\ UNCHANGED << argv, args, location, district_name, threat_profile, profile_lookup,
                    news_articles, article_idx, threats_detected, result, raised,
                    streams, exit_code >>

(* Line 269. *)
LoadModelStep ==
    /\ pc = "load_model"
    /\ \E csv \in CsvFiles :
          LET loaded == LoadModel(model, csv) IN
          /\ model' = loaded.model
          /\ streams' = WriteAll(streams, LoadModelFile, loaded.log)
    /\ pc' = "resolve"
    /\ UNCHANGED << argv, args, location, district_name, threat_profile, profile_lookup,
                    news_articles, article_idx, threats_detected, result, raised,
                    exit_code >>

(* Lines 97-101. *)
ResolveDistrict ==
    /\ pc = "resolve"
    /\ \E loc \in Locations :
          LET got == GetDistrictFromCoordinates(loc) IN
          /\ location' = loc
          /\ district_name' = got.value
          /\ streams' = WriteAll(streams, GeocodingFile, got.log)
    /\ pc' = "check_district"
    /\ UNCHANGED << argv, args, model, threat_profile, profile_lookup, news_articles,
                    article_idx, threats_detected, result, raised, exit_code >>

(* Lines 103-104. *)
CheckDistrict ==
    /\ pc = "check_district"
    /\ IF ~Truthy(district_name)
       THEN /\ result' = GetFallbackResult(model,
                            "Could not determine district from coordinates")
            /\ pc' = "print"
       ELSE /\ pc' = "profile"
            /\ UNCHANGED result
    /\ UNCHANGED << argv, args, model, location, district_name, threat_profile,
                    profile_lookup, news_articles, article_idx, threats_detected,
                    raised, streams, exit_code >>

(* Lines 107-115. *)
LookupProfile ==
    /\ pc = "profile"
    /\ LET got == GetDistrictThreats(model, district_name) IN
          /\ threat_profile' = got.value
          /\ profile_lookup' = got.lookup
          /\ streams' = WriteAll(streams, ProfileFile, got.log)
    /\ news_articles' = MockNewsArticles
    /\ threats_detected' = << >>
    /\ article_idx' = 1
    /\ pc' = "scan"
    /\ UNCHANGED << argv, args, model, location, district_name, result, raised,
                    exit_code >>

AnalysisFile ==
    "stderr"

(* Lines 117-129, one article, and lines 158-160 when the condition raises. *)
ScanArticle ==
    /\ pc = "scan"
    /\ article_idx <= Len(news_articles)
    /\ LET article == news_articles[article_idx]
           outcome == ArticleMatch(article.title, district_name)
       IN IF outcome = "raise"
          THEN /\ raised' = "AttributeError"
               /\ streams' = WriteLine(streams, AnalysisFile, Diag("Analysis error"))
               /\ result' = GetFallbackResult(model,
                               "Analysis error: 'int' object has no attribute 'lower'")
               /\ pc' = "print"
               /\ UNCHANGED << threats_detected, article_idx >>
          ELSE /\ threats_detected' =
                     IF outcome = "match"
                     THEN Append(threats_detected, ThreatDetail(article, district_name))
                     ELSE threats_detected
               /\ article_idx' = article_idx + 1
               /\ UNCHANGED << raised, streams, result, pc >>
    /\ UNCHANGED << argv, args, model, location, district_name, threat_profile,
                    profile_lookup, news_articles, exit_code >>

(* Lines 131-156. *)
Classify ==
    /\ pc = "scan"
    /\ article_idx > Len(news_articles)
    /\ \E elapsed \in 0..MaxElapsed :
          result' = AnalysisResult(model, district_name, threats_detected,
                                   threat_profile, elapsed)
    /\ pc' = "print"
    /\ UNCHANGED << argv, args, model, location, district_name, threat_profile,
                    profile_lookup, news_articles, article_idx, threats_detected,
                    raised, streams, exit_code >>

(* Line 275, and the normal end of the process. *)
PrintResult ==
    /\ pc = "print"
    /\ streams' = WriteLine(streams, "stdout", Json(result))
    /\ exit_code' = 0
    /\ pc' = "exited"
    /\ UNCHANGED << argv, args, model, location, district_name, threat_profile,
                    profile_lookup, news_articles, article_idx, threats_detected,
                    result, raised >>

(* Lines 277-294. *)
HandleException ==
    /\ pc = "except"
    /\ streams' = WriteLine(streams, "stdout",
                            Json(ErrorResult("could not convert string to float")))
    /\ exit_code' = 1
    /\ pc' = "exited"
    /\ UNCHANGED << argv, args, model, location, district_name, threat_profile,
                    profile_lookup, news_articles, article_idx, threats_detected,
                    result, raised >>

Next ==
    \/ CheckArguments
    \/ ParseArguments
    \/ ConstructModel
    \/ LoadModelStep
    \/ ResolveDistrict
    \/ CheckDistrict
    \/ LookupProfile
    \/ ScanArticle
    \/ Classify
    \/ PrintResult
    \/ HandleException

Spec ==
    Init /\ [][Next]_vars

-----------------------------------------------------------------------------
(* The loop of lines 117-129 is a function of news_articles and
   district_name; get_mock_news_articles stands for any Signal Source.  This
   specification starts it at line 117 on feeds drawn from headlines with and
   without a keyword and with and without the district's name. *)

MaxFeed ==
    2

ProbeTitleFlood ==
    <<"M", "u", "m", "b", "a", "i", " ", "f", "l", "o", "o", "d">>
ProbeTitleSunny ==
    <<"S", "u", "n", "n", "y", " ", "d", "a", "y", " ", "i", "n", " ", "M", "u", "m", "b", "a", "i">>
ProbeTitleUpper ==
    <<"P", "R", "O", "T", "E", "S", "T", " ", "I", "N", " ", "C", "H", "E", "N", "N", "A", "I">>
ProbeTitlePlain ==
    <<"P", "u", "n", "e", " ", "n", "e", "w", "s">>

ProbeArticles ==
    { [title |-> ProbeTitleFlood, source |-> [name |-> "Probe News"],
       url |-> "https://example.com/1"],
      [title |-> ProbeTitleSunny, source |-> [name |-> "Probe Weather"],
       url |-> "https://example.com/2"],
      [title |-> ProbeTitleUpper, source |-> [name |-> "Probe Times"],
       url |-> "https://example.com/3"],
      [title |-> ProbeTitlePlain, source |-> [name |-> "Probe Herald"],
       url |-> "https://example.com/4"] }

Feeds ==
    { MockNewsArticles } \cup UNION { [1..n -> ProbeArticles] : n \in 0..MaxFeed }

ProbeNames ==
    { NameCityDistrict, NameSuburb, NameCity, NameCounty }

ProfilesCsv ==
    [exists |-> TRUE, readable |-> TRUE, has_district |-> TRUE, rows |-> ProfileRows]

InitScan ==
    /\ argv = << ScriptName, "19.07", "19.07", "19.07", "abc" >>
    /\ args = [latitude |-> Float(1907), longitude |-> Float(1907),
               accuracy |-> Float(1907), user_id |-> "abc"]
    /\ pc = "scan"
    /\ model = LoadModel(NewModel, ProfilesCsv).model
    /\ \E name \in ProbeNames :
          /\ location = [outcome |-> "address", address |-> [k \in { "city" } |-> Str(name)]]
          /\ district_name = Str(name)
          /\ threat_profile = GetDistrictThreats(model, Str(name)).value
          /\ profile_lookup = GetDistrictThreats(model, Str(name)).lookup
    /\ news_articles \in Feeds
    /\ article_idx = 1
    /\ threats_detected = << >>
    /\ result = None
    /\ raised = "none"
    /\ streams = [stdout |-> << >>,
                  stderr |-> << Diag("Threat profiles loaded") >>]
    /\ exit_code = -1

NextScan ==
    \/ ScanArticle
    \/ Classify
    \/ PrintResult

SpecScan ==
    InitScan /\ [][NextScan]_vars

-----------------------------------------------------------------------------
(* What the claims speak of. *)

Exited ==
    pc = "exited"

Stdout ==
    streams.stdout

Stderr ==
    streams.stderr

(* The result objects produced so far: the one analyze_threats returned and
   the ones printed. *)
Produced ==
    (IF result = None THEN {} ELSE { result })
    \cup { Stdout[i].obj : i \in { j \in 1..Len(Stdout) : Stdout[j].kind = "json" } }

(* needle occurs in hay *)
IsSubstring(needle, hay) ==
    \E i \in 1..(Len(hay) - Len(needle) + 1) :
        \A j \in 1..Len(needle) : hay[i + j - 1] = needle[j]

HasKeyword(title) ==
    \E k \in 1..Len(THREAT_KEYWORDS) : IsSubstring(THREAT_KEYWORDS[k], Lower(title))

(* The feed positions whose headline names a keyword and the district. *)
Matching(feed, name) ==
    { i \in 1..Len(feed) :
        HasKeyword(feed[i].title) /\ IsSubstring(Lower(name), Lower(feed[i].title)) }

ResolvedDistrict ==
    /\ location.outcome # "not_called"
    /\ district_name.py = "str"
    /\ district_name.s # << >>

(* C1: when the resolver returned a non-empty district name and nothing was
   raised, the result's (risk_level, confidence) is (low, 0.7) for no matching
   signal item, (medium, 0.8) for one and (high, 0.9) for two or more, and no
   other pair occurs. *)
C1_RiskByMatchCount ==
    (pc \in { "print", "exited" } /\ ResolvedDistrict /\ raised = "none") =>
        LET n == Cardinality(Matching(news_articles, district_name.s))
            pair == << result.risk_level, result.confidence >>
        IN /\ (n = 0) => (pair = << "low", 70 >>)
           /\ (n = 1) => (pair = << "medium", 80 >>)
           /\ (n >= 2) => (pair = << "high", 90 >>)
           /\ pair \in { << "low", 70 >>, << "medium", 80 >>, << "high", 90 >> }

C1_Witness ==
    /\ Exited /\ ResolvedDistrict /\ raised = "none"
    /\ Cardinality(Matching(news_articles, district_name.s)) = 2
    /\ result.risk_level = "high"

(* C2: in every result produced that counts threats, safety_alert is null when
   threats_detected is 0, and otherwise it is an alert of type high_risk_area
   and severity high when risk_level is high, of type moderate_risk and
   severity medium when risk_level is medium. *)
C2_AlertMirrorsRisk ==
    \A r \in Produced :
        ("threats_detected" \in DOMAIN r) =>
            /\ (r.threats_detected = 0) => (r.safety_alert = None)
            /\ (r.threats_detected > 0) =>
                  /\ r.safety_alert # None
                  /\ r.risk_level \in { "high", "medium" }
                  /\ (r.risk_level = "high") =>
                        /\ r.safety_alert.type = "high_risk_area"
                        /\ r.safety_alert.severity = "high"
                  /\ (r.risk_level = "medium") =>
                        /\ r.safety_alert.type = "moderate_risk"
                        /\ r.safety_alert.severity = "medium"

C2_Witness ==
    /\ Exited
    /\ \E r \in Produced :
          /\ "threats_detected" \in DOMAIN r
          /\ r.threats_detected = 2
          /\ r.safety_alert # None
          /\ r.safety_alert.type = "high_risk_area"

(* The i-th smallest member of a set of numbers. *)
Nth(S, i) ==
    CHOOSE x \in S : Cardinality({ y \in S : y < x }) = i - 1

(* C3: the threat_details of a normal result are exactly the feed's items
   whose lower-cased title contains one of the eleven keywords and the
   lower-cased district name, in feed order, each with the item's title,
   source name and url and the district; on the mock feed the district Mumbai
   gives the protest headline alone, and the Delhi flood headline, the feed's
   first, is no match. *)
C3_ThreatDetailsAreMatches ==
    (pc \in { "print", "exited" } /\ result # None /\ result.risk_level # "unknown") =>
        LET M == Matching(news_articles, district_name.s)
            details == result.threat_details
        IN /\ Len(THREAT_KEYWORDS) = 11
           /\ Len(details) = Cardinality(M)
           /\ \A j \in 1..Len(details) :
                 LET item == news_articles[Nth(M, j)]
                 IN details[j] = [title |-> item.title, source |-> item.source.name,
                                  url |-> item.url, district |-> district_name.s]
           /\ (news_articles = MockNewsArticles /\ district_name.s = NameCityDistrict) =>
                 /\ Len(details) = 1
                 /\ details[1].title = Title2
                 /\ M = { 2 }

C3_Witness ==
    /\ Exited
    /\ district_name = Str(NameCityDistrict)
    /\ Len(news_articles) = 2
    /\ news_articles[1].title = ProbeTitleSunny
    /\ news_articles[2].title = ProbeTitleFlood
    /\ Len(result.threat_details) = 1
    /\ result.threat_details[1].title = ProbeTitleFlood

(* C4: a result that carries a risk_level has risk_level unknown exactly when
   the resolver returned null or an empty name or an error was raised in the
   analysis or in main, and then its confidence is 0.0 and its threat_details
   are empty. *)
C4_UnknownIffFailed ==
    \A r \in Produced :
        ("risk_level" \in DOMAIN r) =>
            /\ (r.risk_level = "unknown") <=>
                  \/ raised # "none"
                  \/ location.outcome # "not_called"
                     /\ district_name \in { None, Str(<< >>) }
            /\ (r.risk_level = "unknown") =>
                  (r.confidence = 0 /\ r.threat_details = << >>)

C4_Witness ==
    /\ Exited
    /\ raised = "AttributeError"
    /\ \E r \in Produced : "risk_level" \in DOMAIN r /\ r.risk_level = "unknown"

(* C5: threats_detected is the length of threat_details in every result
   produced that has the two fields. *)
C5_CountIsLength ==
    \A r \in Produced :
        ("threats_detected" \in DOMAIN r) =>
            r.threats_detected = Len(r.threat_details)

C5_Witness ==
    /\ Exited
    /\ \E r \in Produced :
          "threat_details" \in DOMAIN r /\ Len(r.threat_details) = 4

(* The resolver failed: the geocoder raised, gave no location or no address,
   or gave an address whose components are all absent or empty. *)
ResolverFailed ==
    \/ location.outcome \in { "GeocoderTimedOut", "GeocoderServiceError",
                              "Exception", "no_location", "no_address" }
    \/ /\ location.outcome = "address"
       /\ \A k \in DOMAIN location.address : location.address[k] = Str(<< >>)

CanonicalFallback ==
    [risk_level |-> "unknown",
     confidence |-> 0,
     prediction |-> [text |-> "Analysis failed: {error_message}",
                     error_message |-> "Could not determine district from coordinates"],
     insights |-> << [text |-> "Unable to analyze location"],
                     [text |-> "Please try again"] >>,
     recommendations |-> << "Use general safety precautions", "Stay alert" >>,
     safety_alert |-> None,
     model_version |-> "1.0",
     processing_time |-> 0,
     district |-> UnknownDistrict,
     threats_detected |-> 0,
     threat_details |-> << >>]

(* What follows a failed resolution, whatever get_district_from_coordinates
   returned: nothing is raised, analyze_threats returns the canonical fallback
   result, main prints it and the process ends with exit code 0. *)
FallbackAfterFailure ==
    /\ raised = "none"
    /\ (pc \in { "print", "exited" }) => (result = CanonicalFallback)
    /\ Exited => (Stdout = << Json(CanonicalFallback) >> /\ exit_code = 0)

(* C6, as amended: when the resolver fails, get_district_from_coordinates
   returns null or, when state_district is present and empty, the empty
   string, without propagating; analyze_threats returns the canonical
   fallback result, main prints it and the exit code is 0. *)
C6_ResolverFailureFallsBack ==
    ResolverFailed =>
        (district_name \in { None, Str(<< >>) } /\ FallbackAfterFailure)

C6_Witness ==
    /\ Exited
    /\ ResolverFailed
    /\ district_name = Str(<< >>)
    /\ exit_code = 0
    /\ Stdout = << Json(CanonicalFallback) >>

(* C6 as claimed: when the resolver fails, get_district_from_coordinates
   returns null, and the canonical fallback result is printed with exit
   code 0. *)
C6_AsClaimed ==
    ResolverFailed => (district_name = None /\ FallbackAfterFailure)

ArgumentParsingFailed ==
    \/ Len(argv) # 5
    \/ \E i \in 2..4 : argv[i] \notin FloatLiterals

ResultFields ==
    { "risk_level", "confidence", "prediction", "insights", "recommendations",
      "safety_alert", "model_version", "processing_time", "district",
      "threats_detected", "threat_details" }

(* C7, as amended: when the argument count is not 4 the program prints an
   object whose only field is `error`; when latitude, longitude or accuracy
   is no float it prints the hard-failure object, `error` and the result
   fields with risk_level unknown; both exit with code 1, and neither
   constructs a model or calls the resolver. *)
C7_ArgumentFailure ==
    ArgumentParsingFailed =>
        /\ model = None
        /\ location.outcome = "not_called"
        /\ Exited =>
              /\ exit_code = 1
              /\ Len(Stdout) = 1
              /\ Stdout[1].kind = "json"
              /\ (Len(argv) # 5) => (DOMAIN Stdout[1].obj = { "error" })
              /\ (Len(argv) = 5) =>
                    /\ DOMAIN Stdout[1].obj = { "error" } \cup ResultFields
                    /\ Stdout[1].obj.risk_level = "unknown"

C7_Witness ==
    /\ Exited
    /\ Len(argv) = 5
    /\ argv[3] = "abc"
    /\ exit_code = 1

(* C7 as claimed: when argument parsing fails, by the count or by a float,
   the program prints an object whose only field is `error` and exits with
   code 1, without constructing a model or calling the resolver. *)
C7_AsClaimed ==
    ArgumentParsingFailed =>
        /\ model = None
        /\ location.outcome = "not_called"
        /\ Exited =>
              /\ exit_code = 1
              /\ Len(Stdout) = 1
              /\ DOMAIN Stdout[1].obj = { "error" }

HardFailure ==
    Exited /\ raised = "ValueError"

SharedDefaults ==
    { "risk_level", "confidence", "safety_alert", "model_version",
      "processing_time", "district", "threats_detected", "threat_details" }

(* C8, as amended: on a hard failure the printed object has the fallback
   result's fields and `error`; risk_level, confidence, safety_alert,
   model_version, processing_time, district, threats_detected and
   threat_details have the fallback result's values, while prediction,
   insights and recommendations are the error object's own texts; the exit
   code is 1. *)
C8_ErrorObjectShape ==
    HardFailure =>
        LET obj == Stdout[1].obj
            fallback == GetFallbackResult(NewModel, "")
        IN /\ Len(Stdout) = 1
           /\ DOMAIN obj = DOMAIN fallback \cup { "error" }
           /\ \A f \in SharedDefaults : obj[f] = fallback[f]
           /\ obj.prediction = [text |-> "Error occurred during analysis"]
           /\ obj.insights = << [text |-> "Model error occurred"] >>
           /\ obj.recommendations = << "Please try again or contact support" >>
           /\ exit_code = 1

C8_Witness ==
    /\ HardFailure
    /\ Len(Stdout) = 1
    /\ "error" \in DOMAIN Stdout[1].obj
    /\ exit_code = 1

(* C8 as claimed: on a hard failure the printed object has the fallback
   result's fields and `error`, and every field but `error` (and prediction,
   which quotes the message) has the fallback result's value, insights and
   recommendations included; the exit code is 1. *)
C8_AsClaimed ==
    HardFailure =>
        LET obj == Stdout[1].obj
            fallback == GetFallbackResult(NewModel, "")
        IN /\ DOMAIN obj = DOMAIN fallback \cup { "error" }
           /\ \A f \in DOMAIN fallback \ { "prediction" } : obj[f] = fallback[f]
           /\ exit_code = 1

(* C9: when the process has ended, exactly one line has been written to
   standard output and it is JSON; before that at most one has; diagnostics
   are written to the error stream only. *)
C9_OneJsonLine ==
    /\ Len(Stdout) <= 1
    /\ Exited => (Len(Stdout) = 1)
    /\ \A i \in 1..Len(Stdout) : Stdout[i].kind = "json"
    /\ \A i \in 1..Len(Stderr) : Stderr[i].kind = "diag"

C9_Witness ==
    /\ Exited
    /\ raised = "AttributeError"
    /\ Len(Stderr) = 3
    /\ Len(Stdout) = 1

HasInsight(r, text) ==
    \E i \in 1..Len(r.insights) : r.insights[i] = [text |-> text]

(* C10: a normal result's insights have the "Limited historical threat data"
   line exactly when the profile lookup returned no data (table not loaded,
   no row, or the lookup raised) and the "Historical threat data available"
   line exactly when it returned a profile, never both. *)
C10_HistoricalInsight ==
    (pc \in { "print", "exited" } /\ result # None /\ result.risk_level # "unknown") =>
        LET limited == HasInsight(result, "Limited historical threat data for this district")
            available == HasInsight(result, "Historical threat data available for this district")
        IN /\ limited <=> (profile_lookup \in { "not_loaded", "no_row", "raised" })
           /\ available <=> (profile_lookup = "found")
           /\ ~(limited /\ available)

(* The positions, in the order of preference, of the address components that
   are present and not empty. *)
NonEmptyComponents(address) ==
    { i \in 1..Len(AddressKeys) :
        /\ AddressKeys[i] \in DOMAIN address
        /\ address[AddressKeys[i]] # Str(<< >>) }

(* C11: when the geocoder gives an address, get_district_from_coordinates
   returns the component that is present and not empty and comes first in
   the order city_district, suburb, city, county, state_district, and it
   returns null only when there is none. *)
C11_FirstNonEmptyComponent ==
    (location.outcome = "address") =>
        LET address == location.address
            P == NonEmptyComponents(address)
        IN /\ \A i \in P :
                 (\A j \in P : i <= j) => (district_name = address[AddressKeys[i]])
           /\ (district_name = None) => (P = {})

C11_Witness ==
    /\ location.outcome = "address"
    /\ DOMAIN location.address = { "city_district", "city", "county" }
    /\ location.address["city_district"] = Str(<< >>)
    /\ location.address["city"] = Str(NameCity)
    /\ location.address["county"] = Str(NameCounty)
    /\ district_name = Str(NameCity)

-----------------------------------------------------------------------------
(* predict_template.py: SafetyMLModel.predict, started at line 197 of its
   main on arguments that float() accepted, with the model and the data
   loaded. *)

(* x > c, x < c, x >= c and x <= c for a float x and c hundredths: every
   comparison with not-a-number is false. *)
Greater(x, c) ==
    ~x.nan /\ x.h > c

Less(x, c) ==
    ~x.nan /\ x.h < c

AtLeast(x, c) ==
    ~x.nan /\ x.h >= c

AtMost(x, c) ==
    ~x.nan /\ x.h <= c

(* Lines 16-19, 21-29 and 31-40. *)
TemplateLoadedModel ==
    [py |-> "SafetyMLModel", model_loaded |-> TRUE, data_loaded |-> TRUE,
     model_version |-> "1.0"]

(* Lines 75-87. *)
TemplateCalculateRiskLevel(lat, lng, accuracy) ==
    IF Greater(accuracy, 5000) THEN "high"
    ELSE IF AtLeast(lat, 2300) /\ AtMost(lat, 2310)
            /\ AtLeast(lng, 7250) /\ AtMost(lng, 7260)
    THEN "medium"
    ELSE "low"

(* Mutant of TemplateCalculateConfidence: the scale is read upside down, a
   larger accuracy giving the larger confidence. *)
TemplateCalculateConfidenceReversed(accuracy) ==
    IF Greater(accuracy, 5000) THEN 95
    ELSE IF Greater(accuracy, 2500) THEN 85
    ELSE IF Greater(accuracy, 1000) THEN 70
    ELSE 50

(* Lines 89-99, in hundredths. *)
TemplateCalculateConfidence(accuracy) ==
    IF Less(accuracy, 1000) THEN 95
    ELSE IF Less(accuracy, 2500) THEN 85
    ELSE IF Less(accuracy, 5000) THEN 70
    ELSE 50

(* Lines 101-108. *)
TemplateGeneratePrediction(risk_level) ==
    CASE risk_level = "low" -> Line("Location appears safe for normal activities")
      [] risk_level = "medium" -> Line("Exercise caution in this area")
      [] risk_level = "high" -> Line("High risk area - avoid if possible")
      [] OTHER -> Line("Unknown risk level")

(* Lines 110-125. *)
TemplateGenerateInsights(lat, lng, risk_level) ==
    CASE risk_level = "high" ->
            << Line("High-risk area detected"),
               Line("Historical incident data shows elevated risk") >>
      [] risk_level = "medium" ->
            << Line("Moderate risk factors present"),
               Line("Some safety concerns in this area") >>
      [] OTHER ->
            << Line("Area appears generally safe"),
               Line("Low historical incident rate") >>

(* Lines 127-143. *)
TemplateGenerateRecommendations(risk_level) ==
    CASE risk_level = "high" ->
            << "Avoid staying in this area for extended periods",
               "Stay alert and aware of surroundings",
               "Consider alternative routes if possible" >>
      [] risk_level = "medium" ->
            << "Be cautious and aware of your surroundings",
               "Avoid isolated areas" >>
      [] OTHER ->
            << "Continue normal activities with standard safety precautions",
               "Maintain general awareness" >>

(* Lines 145-161. *)
TemplateCheckSafetyAlert(risk_level, confidence) ==
    IF risk_level = "high" /\ confidence > 80
    THEN [type |-> "high_risk_area", severity |-> "high",
          message |-> Line("You are in a high-risk area. Please exercise extreme caution.")]
    ELSE IF risk_level = "medium" /\ confidence > 70
    THEN [type |-> "moderate_risk", severity |-> "medium",
          message |-> Line("Moderate risk detected. Please be cautious.")]
    ELSE None

(* Lines 42-69; no step of the try block raises on floats, so the except of
   lines 71-73 is not taken. *)
TemplatePredict(m, latitude, longitude, accuracy, elapsed) ==
    LET risk_level == TemplateCalculateRiskLevel(latitude, longitude, accuracy)
        confidence == TemplateCalculateConfidence(accuracy)
    IN [risk_level |-> risk_level,
        confidence |-> confidence,
        prediction |-> TemplateGeneratePrediction(risk_level),
        insights |-> TemplateGenerateInsights(latitude, longitude, risk_level),
        recommendations |-> TemplateGenerateRecommendations(risk_level),
        safety_alert |-> TemplateCheckSafetyAlert(risk_level, confidence),
        model_version |-> m.model_version,
        processing_time |-> elapsed]

TemplateLatitudes ==
    { "22.99", "23.0", "23.05", "23.1", "23.11", "nan" }

TemplateLongitudes ==
    { "72.49", "72.5", "72.55", "72.6", "72.61" }

TemplateAccuracies ==
    { "-1", "5", "10", "24.99", "25", "49.99", "50", "50.01", "60", "nan" }

InitTemplate ==
    /\ \E lat \in TemplateLatitudes, lng \in TemplateLongitudes,
          acc \in TemplateAccuracies :
          /\ argv = << "predict_template.py", lat, lng, acc, "abc" >>
          /\ args = [latitude |-> FloatOf(lat), longitude |-> FloatOf(lng),
                     accuracy |-> FloatOf(acc), user_id |-> "abc"]
    /\ pc = "predict"
    /\ model = TemplateLoadedModel
    /\ location = [outcome |-> "not_called", address |-> NoAddress]
    /\ district_name = None
    /\ threat_profile = << >>
    /\ profile_lookup = "not_called"
    /\ news_articles = << >>
    /\ article_idx = 0
    /\ threats_detected = << >>
    /\ result = None
    /\ raised = "none"
    /\ streams = [stdout |-> << >>,
                  stderr |-> << Diag("Model loaded successfully"),
                                Diag("Data loaded from data.csv") >>]
    /\ exit_code = -1

(* Line 197. *)
TemplatePredictStep ==
    /\ pc = "predict"
    /\ \E elapsed \in 0..MaxElapsed :
          result' = TemplatePredict(model, args.latitude, args.longitude,
                                    args.accuracy, elapsed)
    /\ pc' = "print"
    /\ UNCHANGED << argv, args, model, location, district_name, threat_profile,
                    profile_lookup, news_articles, article_idx, threats_detected,
                    raised, streams, exit_code >>

(* Line 200, and the normal end of the process. *)
TemplatePrintResult ==
    /\ pc = "print"
    /\ streams' = WriteLine(streams, "stdout", Json(result))
    /\ exit_code' = 0
    /\ pc' = "exited"
    /\ UNCHANGED << argv, args, model, location, district_name, threat_profile,
                    profile_lookup, news_articles, article_idx, threats_detected,
                    result, raised >>

NextTemplate ==
    \/ TemplatePredictStep
    \/ TemplatePrintResult

SpecTemplate ==
    InitTemplate /\ [][NextTemplate]_vars

(* C12: SafetyMLModel.predict never returns a safety_alert of severity high:
   risk_level is high only when accuracy > 50, and then confidence is 0.50
   and safety_alert is null; a moderate_risk alert is returned only when
   risk_level is medium and accuracy < 25. *)
C12_NoHighAlert ==
    (pc \in { "print", "exited" }) =>
        LET accuracy == args.accuracy
            alert == result.safety_alert
        IN /\ (alert # None) => (alert.severity # "high")
           /\ (result.risk_level = "high") =>
                 /\ ~accuracy.nan /\ accuracy.h > 5000
                 /\ result.confidence = 50
                 /\ alert = None
           /\ (alert # None /\ alert.type = "moderate_risk") =>
                 /\ result.risk_level = "medium"
                 /\ ~accuracy.nan /\ accuracy.h < 2500

C12_Witness ==
    /\ pc = "exited"
    /\ args.accuracy = Float(6000)
    /\ result.risk_level = "high"
    /\ result.confidence = 50
    /\ result.safety_alert = None
====
